---- MODULE Spec2Model ----
(***************************************************************************)
(* Style-Size extractor: label/quantity extraction, key normalisation,     *)
(* aggregation, categorisation and report ordering                         *)
(* (src/size_style_core.py, src/esty_counter.py, src/streamlit_app.py).    *)
(*                                                                         *)
(* Text is a sequence of characters.  A character is a one-character       *)
(* string, except for the named characters below.  Indices into Python     *)
(* lists are 0-based in the source; `lines[j]` is Line(lines, j) here.     *)
(***************************************************************************)
EXTENDS Integers, Sequences, FiniteSets, TLC

VARIABLES
    pc,         \* which part of the program the run exercises
    raw,        \* SpecKey: the label text given to normalize_key
    key,        \* SpecKey: the current text (raw, or normalize_key applied)
    napplied,   \* SpecKey: how many times normalize_key has been applied
    rank,       \* SpecKey: category_rank(key)
    hood,       \* SpecKey: is_hoodie(key)
    sweat,      \* SpecKey: is_sweatshirt_nonhoodie(key)
    lines,      \* SpecQty: the text lines
    idx,        \* SpecQty: the 0-based index of the label line
    radius,     \* SpecQty: the search radius
    found,      \* SpecQty: what find_quantity_near returned
    entries,    \* Spec: the (raw label, quantity) entries given to summarize
    result,     \* Spec: the ExtractionResult of summarize
    df,         \* Spec: the rows of to_dataframe(result.agg)
    cats,       \* SpecSummary: what summarize_by_category(result.agg) returned (web)
    summary     \* SpecSummary: the counters of App.extract (desktop)

keyVars == <<raw, key, napplied, rank, hood, sweat>>
qtyVars == <<lines, idx, radius, found>>
aggVars == <<entries, result, df, cats, summary>>

vars == <<pc, keyVars, qtyVars, aggVars>>

\* a variable that holds no value yet is <<>>; one that holds v is <<v>>
Unset == <<>>
Some(v) == <<v>>

\* the variables of the parts a run does not exercise
KeyIdle ==
    /\ raw = <<>> /\ key = <<>> /\ napplied = 0
    /\ rank = Unset /\ hood = Unset /\ sweat = Unset
QtyIdle == lines = <<>> /\ idx = 0 /\ radius = 0 /\ found = Unset
AggIdle ==
    /\ entries = <<>> /\ result = Unset /\ df = Unset
    /\ cats = Unset /\ summary = Unset

---------------------------------------------------------------------------
(* Characters *)

SP == " "
TAB == "\t"
NBSP == "NBSP"
ENDASH == "ENDASH"
EMDASH == "EMDASH"

Digits == <<"0", "1", "2", "3", "4", "5", "6", "7", "8", "9">>

UpperLetters ==
    <<"A", "B", "C", "D", "E", "F", "G", "H", "I", "J", "K", "L", "M",
      "N", "O", "P", "Q", "R", "S", "T", "U", "V", "W", "X", "Y", "Z">>

LowerLetters ==
    <<"a", "b", "c", "d", "e", "f", "g", "h", "i", "j", "k", "l", "m",
      "n", "o", "p", "q", "r", "s", "t", "u", "v", "w", "x", "y", "z">>

\* The characters of the model in ascending code point order
\* (U+0009, U+0020, '-', '/', digits, ':', A-Z, '_', a-z, U+00A0, U+2013, U+2014).
CodePointOrder ==
    <<TAB, SP, "-", "/">> \o Digits \o <<":">> \o UpperLetters \o <<"_">>
    \o LowerLetters \o <<NBSP, ENDASH, EMDASH>>

Range(f) == {f[i] : i \in DOMAIN f}

Chars == Range(CodePointOrder)

Ord == [c \in Chars |-> CHOOSE i \in DOMAIN CodePointOrder : CodePointOrder[i] = c]

\* str.isspace / regex \s
Whitespace == {SP, TAB, NBSP}

IsSpace(c) == c \in Whitespace

\* regex \w
WordChars == Range(Digits) \cup Range(UpperLetters) \cup Range(LowerLetters) \cup {"_"}

LowerChar ==
    [c \in Chars |->
        IF c \in Range(UpperLetters)
        THEN LowerLetters[CHOOSE i \in DOMAIN UpperLetters : UpperLetters[i] = c]
        ELSE c]

\* str.lower()
lower(s) == [i \in DOMAIN s |-> LowerChar[s[i]]]

---------------------------------------------------------------------------
(* String and regular-expression primitives *)

\* the literal p occurs in s starting at position i (1-based)
MatchAt(s, i, p) ==
    /\ i >= 1
    /\ i + Len(p) - 1 <= Len(s)
    /\ \A k \in 1..Len(p) : s[i + k - 1] = p[k]

\* `p in s`
Contains(s, p) == \E i \in 1..(Len(s) + 1) : MatchAt(s, i, p)

IsWordAt(s, i) == i >= 1 /\ i <= Len(s) /\ s[i] \in WordChars

\* regex \b just before position i (i in 1..Len(s)+1)
Boundary(s, i) == IsWordAt(s, i - 1) # IsWordAt(s, i)

\* regex \bp\b as a search
ContainsWord(s, p) ==
    \E i \in 1..(Len(s) + 1) :
        Boundary(s, i) /\ MatchAt(s, i, p) /\ Boundary(s, i + Len(p))

\* regex \s* : the first position at or after i that holds no whitespace
RECURSIVE SkipSpace(_, _)
SkipSpace(s, i) ==
    IF i <= Len(s) /\ IsSpace(s[i]) THEN SkipSpace(s, i + 1) ELSE i

\* regex \s*-?\s* : the position after optional whitespace, an optional
\* hyphen and optional whitespace, starting at i
SkipHyphenGap(s, i) ==
    LET a == SkipSpace(s, i)
        b == IF a <= Len(s) /\ s[a] = "-" THEN a + 1 ELSE a
    IN  SkipSpace(s, b)

\* regex  p \s*-?\s* q  as a search
ContainsGapped(s, p, q) ==
    \E i \in 1..(Len(s) + 1) :
        MatchAt(s, i, p) /\ MatchAt(s, SkipHyphenGap(s, i + Len(p)), q)

---------------------------------------------------------------------------
(* Vocabulary of the source *)

W_sweatshirt == <<"s", "w", "e", "a", "t", "s", "h", "i", "r", "t">>
W_hooded_sweatshirt ==
    <<"h", "o", "o", "d", "e", "d", SP, "s", "w", "e", "a", "t", "s", "h", "i", "r", "t">>
W_unisex_hoodie == <<"u", "n", "i", "s", "e", "x", SP, "h", "o", "o", "d", "i", "e">>
W_hoodie == <<"h", "o", "o", "d", "i", "e">>
W_hooded == <<"h", "o", "o", "d", "e", "d">>
W_long_sleeve == <<"l", "o", "n", "g", SP, "s", "l", "e", "e", "v", "e">>
W_long_hyphen_sleeve == <<"l", "o", "n", "g", "-", "s", "l", "e", "e", "v", "e">>
W_longsleeve == <<"l", "o", "n", "g", "s", "l", "e", "e", "v", "e">>
W_v_hyphen_neck == <<"v", "-", "n", "e", "c", "k">>
W_v_neck == <<"v", SP, "n", "e", "c", "k">>
W_vneck == <<"v", "n", "e", "c", "k">>
W_shortsleeve == <<"s", "h", "o", "r", "t", "s", "l", "e", "e", "v", "e">>
W_short == <<"s", "h", "o", "r", "t">>
W_sleeve == <<"s", "l", "e", "e", "v", "e">>
W_t == <<"t">>
W_shirt == <<"s", "h", "i", "r", "t">>
W_tshirt == <<"t", "s", "h", "i", "r", "t">>
W_tee == <<"t", "e", "e">>
W_youth == <<"y", "o", "u", "t", "h">>
W_toddler == <<"t", "o", "d", "d", "l", "e", "r">>
W_unisex == <<"u", "n", "i", "s", "e", "x">>
W_onesie == <<"o", "n", "e", "s", "i", "e">>
W_baby_bodysuit == <<"b", "a", "b", "y", SP, "b", "o", "d", "y", "s", "u", "i", "t">>
W_bodysuit == <<"b", "o", "d", "y", "s", "u", "i", "t">>

HOODIE_MARKERS == <<W_hooded_sweatshirt, W_unisex_hoodie>>

---------------------------------------------------------------------------
(* Key normaliser *)

RECURSIVE LStrip(_)
LStrip(s) ==
    IF s # <<>> /\ IsSpace(Head(s)) THEN LStrip(Tail(s)) ELSE s

RECURSIVE RStrip(_)
RStrip(s) ==
    IF s # <<>> /\ IsSpace(s[Len(s)]) THEN RStrip(SubSeq(s, 1, Len(s) - 1)) ELSE s

\* str.strip()
strip(s) == RStrip(LStrip(s))

\* re.sub(r"\s+", " ", s): every maximal run of whitespace becomes one space
RECURSIVE CollapseSpace(_)
CollapseSpace(s) ==
    IF s = <<>> THEN <<>>
    ELSE IF IsSpace(Head(s)) THEN <<SP>> \o CollapseSpace(LStrip(s))
    ELSE <<Head(s)>> \o CollapseSpace(Tail(s))

\* str.replace(old, new) for one-character old and new
ReplaceChar(s, old, new) == [i \in DOMAIN s |-> IF s[i] = old THEN new ELSE s[i]]

\* s.replace("  ", " "): each non-overlapping pair of spaces, left to right,
\* becomes one space
RECURSIVE ReplaceSpacePairs(_)
ReplaceSpacePairs(s) ==
    IF Len(s) < 2 THEN s
    ELSE IF s[1] = SP /\ s[2] = SP THEN <<SP>> \o ReplaceSpacePairs(SubSeq(s, 3, Len(s)))
    ELSE <<Head(s)>> \o ReplaceSpacePairs(Tail(s))

\* normalize_key with the whitespace collapse done by a plain pair replace
normalize_key_pairs(s) ==
    ReplaceChar(ReplaceChar(ReplaceSpacePairs(strip(s)), ENDASH, "-"), EMDASH, "-")

normalize_key(s) ==
    ReplaceChar(ReplaceChar(CollapseSpace(strip(s)), ENDASH, "-"), EMDASH, "-")

---------------------------------------------------------------------------
(* Hoodie / sweatshirt predicates *)

is_hoodie(txt) ==
    \E m \in DOMAIN HOODIE_MARKERS : Contains(lower(txt), HOODIE_MARKERS[m])

\* is_sweatshirt_nonhoodie excluding only the word "hoodie"
is_sweatshirt_nonhoodie_bare(txt) ==
    Contains(lower(txt), W_sweatshirt) /\ ~Contains(lower(txt), W_hoodie)

is_sweatshirt_nonhoodie(txt) ==
    Contains(lower(txt), W_sweatshirt) /\ ~is_hoodie(txt)

---------------------------------------------------------------------------
(* Categoriser *)

\* r"(shortsleeve|short\s*-?\s*sleeve|t\s*-?\s*shirt|tshirt|\btee\b)"
short_sleeve_pat(n) ==
    \/ Contains(n, W_shortsleeve)
    \/ ContainsGapped(n, W_short, W_sleeve)
    \/ ContainsGapped(n, W_t, W_shirt)
    \/ Contains(n, W_tshirt)
    \/ ContainsWord(n, W_tee)

\* r"\b[2-5]t\b"
toddler_pat(n) ==
    \E i \in 1..Len(n) :
        /\ Boundary(n, i)
        /\ n[i] \in {"2", "3", "4", "5"}
        /\ MatchAt(n, i + 1, W_t)
        /\ Boundary(n, i + 2)

\* the alternatives of r"\b(xs|s|m|l|xl|[2-6]xl)\b", in the order written;
\* [2-6]xl is spelt out
SizeAlternatives ==
    <<{<<"x", "s">>}, {<<"s">>}, {<<"m">>}, {<<"l">>}, {<<"x", "l">>},
      {<<"2", "x", "l">>, <<"3", "x", "l">>, <<"4", "x", "l">>,
       <<"5", "x", "l">>, <<"6", "x", "l">>}>>

\* the text matched by alternative a of the size pattern at position i,
\* or <<>> when it does not match there
SizeMatchAt(n, i, a) ==
    LET hits == {t \in SizeAlternatives[a] :
                    Boundary(n, i) /\ MatchAt(n, i, t) /\ Boundary(n, i + Len(t))}
    IN  IF hits = {} THEN <<>> ELSE CHOOSE t \in hits : TRUE

\* re.search(size_pat, n): group 1 of the leftmost match, first alternative
\* first, or <<>> for None
size_search(n) ==
    LET pos == {i \in 1..Len(n) :
                   \E a \in DOMAIN SizeAlternatives : SizeMatchAt(n, i, a) # <<>>}
    IN  IF pos = {} THEN <<>>
        ELSE LET i == CHOOSE p \in pos : \A q \in pos : p <= q
                 a == CHOOSE b \in DOMAIN SizeAlternatives :
                        /\ SizeMatchAt(n, i, b) # <<>>
                        /\ \A c \in DOMAIN SizeAlternatives :
                              SizeMatchAt(n, i, c) # <<>> => b <= c
             IN  SizeMatchAt(n, i, a)

size_pat(n) == size_search(n) # <<>>

\* line 203: the test of rank 0, sweatshirts (non-hoodie)
cond_sweatshirt(n) ==
    /\ Contains(n, W_sweatshirt)
    /\ ~Contains(n, W_hooded)
    /\ ~Contains(n, W_hoodie)

\* line 207: the test of rank 1, long sleeve
cond_long_sleeve(n) ==
    \/ Contains(n, W_long_sleeve)
    \/ Contains(n, W_long_hyphen_sleeve)
    \/ Contains(n, W_longsleeve)

\* line 211: the test of rank 2, hoodies
cond_hoodie(n) ==
    \/ Contains(n, W_hooded_sweatshirt)
    \/ Contains(n, W_unisex_hoodie)
    \/ ContainsWord(n, W_hoodie)

\* line 215: the test of rank 10, v-necks
cond_vneck(n) ==
    \/ Contains(n, W_v_hyphen_neck)
    \/ Contains(n, W_v_neck)
    \/ Contains(n, W_vneck)

\* lines 219-222: the test of rank 3, adult/unisex short sleeve or tee
cond_adult_tee(n) ==
    /\ short_sleeve_pat(n)
    /\ ~(Contains(n, W_youth) \/ toddler_pat(n) \/ Contains(n, W_toddler))

\* lines 226-232: the test of rank 3 (3b), standalone unisex with a size
cond_unisex_size(n) ==
    /\ Contains(n, W_unisex)
    /\ ~\E k \in {W_hoodie, W_hooded, W_sweatshirt} : Contains(n, k)
    /\ ~\E v \in {W_v_hyphen_neck, W_v_neck, W_vneck} : Contains(n, v)
    /\ ~(Contains(n, W_youth) \/ Contains(n, W_toddler) \/ toddler_pat(n))
    /\ size_pat(n)

\* line 236: the test of rank 4, youth short sleeve / tee
cond_youth_tee(n) == short_sleeve_pat(n) /\ Contains(n, W_youth)

\* line 240: the test of rank 5, other youth
cond_youth(n) == Contains(n, W_youth)

\* line 244: the test of rank 6, toddler short sleeve
cond_toddler_tee(n) ==
    /\ toddler_pat(n)
    /\ (Contains(n, W_short) \/ Contains(n, W_tee) \/ Contains(n, W_shirt))

\* line 248: the test of rank 7, other toddler
cond_toddler(n) == toddler_pat(n) \/ Contains(n, W_toddler)

\* line 252: the test of rank 8, onesie / baby bodysuit
cond_onesie(n) ==
    \/ Contains(n, W_onesie)
    \/ Contains(n, W_baby_bodysuit)
    \/ Contains(n, W_bodysuit)

\* category_rank with the hoodie test moved in front of the long-sleeve test
category_rank_hoodie_first(name) ==
    LET n == lower(name) IN
    IF cond_sweatshirt(n) THEN 0
    ELSE IF cond_hoodie(n) THEN 2
    ELSE IF cond_long_sleeve(n) THEN 1
    ELSE IF cond_vneck(n) THEN 10
    ELSE IF cond_adult_tee(n) THEN 3
    ELSE IF cond_unisex_size(n) THEN 3
    ELSE IF cond_youth_tee(n) THEN 4
    ELSE IF cond_youth(n) THEN 5
    ELSE IF cond_toddler_tee(n) THEN 6
    ELSE IF cond_toddler(n) THEN 7
    ELSE IF cond_onesie(n) THEN 8
    ELSE 11

\* category_rank without the final `return 11`: None, written -1
category_rank_no_fallback(name) ==
    LET n == lower(name) IN
    IF cond_sweatshirt(n) THEN 0
    ELSE IF cond_long_sleeve(n) THEN 1
    ELSE IF cond_hoodie(n) THEN 2
    ELSE IF cond_vneck(n) THEN 10
    ELSE IF cond_adult_tee(n) THEN 3
    ELSE IF cond_unisex_size(n) THEN 3
    ELSE IF cond_youth_tee(n) THEN 4
    ELSE IF cond_youth(n) THEN 5
    ELSE IF cond_toddler_tee(n) THEN 6
    ELSE IF cond_toddler(n) THEN 7
    ELSE IF cond_onesie(n) THEN 8
    ELSE -1

category_rank(name) ==
    LET n == lower(name) IN
    IF cond_sweatshirt(n) THEN 0
    ELSE IF cond_long_sleeve(n) THEN 1
    ELSE IF cond_hoodie(n) THEN 2
    ELSE IF cond_vneck(n) THEN 10
    ELSE IF cond_adult_tee(n) THEN 3
    ELSE IF cond_unisex_size(n) THEN 3
    ELSE IF cond_youth_tee(n) THEN 4
    ELSE IF cond_youth(n) THEN 5
    ELSE IF cond_toddler_tee(n) THEN 6
    ELSE IF cond_toddler(n) THEN 7
    ELSE IF cond_onesie(n) THEN 8
    ELSE 11

---------------------------------------------------------------------------
(* SpecNorm: normalize_key applied to a label text, and applied again *)

\* longest text over NormAlphabet
MaxLen == 5
\* most applications of normalize_key to one text
MaxApply == 2

\* the characters normalize_key treats specially, and one it does not
NormAlphabet == {"a", SP, TAB, ENDASH, EMDASH}

RECURSIVE SeqsUpTo(_, _)
SeqsUpTo(S, n) ==
    IF n = 0 THEN {<<>>}
    ELSE LET shorter == SeqsUpTo(S, n - 1)
         IN  shorter \cup {Append(t, x) : t \in {u \in shorter : Len(u) = n - 1}, x \in S}

ShortTexts == SeqsUpTo(NormAlphabet, MaxLen)

InitNorm ==
    /\ pc = "norm"
    /\ raw \in ShortTexts
    /\ key = raw
    /\ napplied = 0
    /\ rank = Unset /\ hood = Unset /\ sweat = Unset
    /\ QtyIdle
    /\ AggIdle

\* key = normalize_key(key)
NormalizeKey ==
    /\ pc = "norm"
    /\ napplied < MaxApply
    /\ key' = normalize_key(key)
    /\ napplied' = napplied + 1
    /\ UNCHANGED <<pc, raw, rank, hood, sweat, qtyVars, aggVars>>

NextNorm == NormalizeKey

SpecNorm == InitNorm /\ [][NextNorm]_vars

---------------------------------------------------------------------------
(* Claims about SpecNorm *)

\* C5: normalize_key is idempotent: once normalize_key has been applied to a
\* text, applying it again leaves the text unchanged.
C5_NormalizeIdempotent == [][napplied >= 1 => key' = key]_vars

\* a text with an inner whitespace run and an en or em dash, normalised twice
C5_Witness ==
    /\ napplied = 2
    /\ \E i \in 2..(Len(raw) - 2) :
          /\ IsSpace(raw[i]) /\ IsSpace(raw[i + 1])
          /\ ~IsSpace(raw[i - 1])
    /\ \E i \in DOMAIN raw : raw[i] \in {ENDASH, EMDASH}
    /\ key # raw

---------------------------------------------------------------------------
(* SpecKey: is_hoodie, is_sweatshirt_nonhoodie and category_rank of a text *)

\* most words of KeyWords in one text
MaxWords == 3

KeyWords ==
    { <<"S", "w", "e", "a", "t", "s", "h", "i", "r", "t">>,
      <<"H", "o", "o", "d", "e", "d">>,
      <<"h", "o", "o", "d", "i", "e">>,
      <<"U", "n", "i", "s", "e", "x">>,
      <<"l", "o", "n", "g", SP, "s", "l", "e", "e", "v", "e">>,
      <<"V", "-", "n", "e", "c", "k">>,
      <<"t", "e", "e">>,
      <<"T", "-", "S", "h", "i", "r", "t">>,
      <<"Y", "o", "u", "t", "h">>,
      <<"3", "T">>,
      <<"X", "L">>,
      <<"o", "n", "e", "s", "i", "e">> }

KeySeparators == {<<SP>>, <<>>}

RECURSIVE Join(_, _)
Join(ws, sep) ==
    IF ws = <<>> THEN <<>>
    ELSE IF Len(ws) = 1 THEN ws[1]
    ELSE ws[1] \o sep \o Join(Tail(ws), sep)

\* the sequences of at most n distinct elements of S
RECURSIVE DistinctSeqsUpTo(_, _)
DistinctSeqsUpTo(S, n) ==
    IF n = 0 THEN {<<>>}
    ELSE LET shorter == DistinctSeqsUpTo(S, n - 1)
         IN  shorter \cup
             UNION {{Append(t, x) : x \in S \ Range(t)} :
                       t \in {u \in shorter : Len(u) = n - 1}}

WordTexts ==
    {Join(ws, sep) : ws \in DistinctSeqsUpTo(KeyWords, MaxWords), sep \in KeySeparators}

KeyTexts == ShortTexts \cup WordTexts

InitKey ==
    /\ pc = "key"
    /\ key \in KeyTexts
    /\ raw = key
    /\ napplied = 0
    /\ rank = Unset /\ hood = Unset /\ sweat = Unset
    /\ QtyIdle
    /\ AggIdle

\* the two predicates summarize applies to a key of the map
HoodiePredicates ==
    /\ pc = "key"
    /\ hood = Unset
    /\ hood' = Some(is_hoodie(key))
    /\ sweat' = Some(is_sweatshirt_nonhoodie(key))
    /\ UNCHANGED <<pc, raw, key, napplied, rank, qtyVars, aggVars>>

\* cat = category_rank(style), after summarize has returned
CategoryRank ==
    /\ pc = "key"
    /\ hood # Unset
    /\ rank = Unset
    /\ rank' = Some(category_rank(key))
    /\ UNCHANGED <<pc, raw, key, napplied, hood, sweat, qtyVars, aggVars>>

NextKey == HoodiePredicates \/ CategoryRank

SpecKey == InitKey /\ [][NextKey]_vars

---------------------------------------------------------------------------
(* Claims about SpecKey *)

\* C6: category_rank is total: on every text it returns an integer in 0..11.
C6_RankTotal == rank # Unset => rank[1] \in 0..11

\* the empty string is ranked, by the catch-all
C6_Witness == rank = Some(11) /\ key = <<>>

\* The rule table of the categoriser as the specification words it, in its
\* fixed order: <<rank, predicate number>>.  TablePred(i, n) is the predicate
\* of row i of the table on the lower-cased key n.
TableRanks == <<0, 1, 2, 10, 3, 3, 4, 5, 6, 7, 8, 11>>

HasAny(n, ws) == \E w \in ws : Contains(n, w)

HasToddlerToken(n) ==
    \E d \in {"2", "3", "4", "5"} : ContainsWord(n, <<d, "t">>)

HasSizeToken(n) ==
    \E t \in UNION Range(SizeAlternatives) : ContainsWord(n, t)

HasShortSleeveOrTee(n) ==
    \/ ContainsWord(n, W_tee)
    \/ ContainsGapped(n, W_t, W_shirt)
    \/ ContainsGapped(n, W_short, W_sleeve)

HasVNeck(n) == HasAny(n, {W_v_hyphen_neck, W_v_neck, W_vneck})

YouthOrToddler(n) ==
    Contains(n, W_youth) \/ HasToddlerToken(n) \/ Contains(n, W_toddler)

TablePred(i, n) ==
    CASE i = 1 -> Contains(n, W_sweatshirt) /\ ~Contains(n, W_hooded) /\ ~Contains(n, W_hoodie)
      [] i = 2 -> HasAny(n, {W_long_sleeve, W_long_hyphen_sleeve, W_longsleeve})
      [] i = 3 -> HasAny(n, {W_hooded_sweatshirt, W_unisex_hoodie}) \/ ContainsWord(n, W_hoodie)
      [] i = 4 -> HasVNeck(n)
      [] i = 5 -> HasShortSleeveOrTee(n) /\ ~YouthOrToddler(n)
      [] i = 6 -> /\ Contains(n, W_unisex)
                  /\ ~HasAny(n, {W_hoodie, W_hooded, W_sweatshirt})
                  /\ ~HasVNeck(n)
                  /\ ~YouthOrToddler(n)
                  /\ HasSizeToken(n)
      [] i = 7 -> HasShortSleeveOrTee(n) /\ Contains(n, W_youth)
      [] i = 8 -> Contains(n, W_youth)
      [] i = 9 -> HasToddlerToken(n) /\ HasAny(n, {W_short, W_tee, W_shirt})
      [] i = 10 -> HasToddlerToken(n) \/ Contains(n, W_toddler)
      [] i = 11 -> HasAny(n, {W_onesie, W_baby_bodysuit, W_bodysuit})
      [] i = 12 -> TRUE

\* the rank of the first row of the table whose predicate holds
Min(S) == CHOOSE i \in S : \A j \in S : i <= j

C7_FirstMatch ==
    \A n \in {lower(key)} :
        \A hits \in {{i \in DOMAIN TableRanks : TablePred(i, n)}} :
            rank[1] = TableRanks[Min(hits)]

\* rank 0 wins over rank 1, and rank 1 over rank 2
C7_SleevePrecedence ==
    LET n == lower(key) IN
    /\ TablePred(1, n) /\ TablePred(2, n) => rank[1] = 0
    /\ TablePred(2, n) /\ TablePred(3, n) => rank[1] = 1

\* the predicates of the short-sleeve/tee, youth and toddler rows
TeeYouthToddler(n) == \E i \in {5, 7, 8, 9, 10} : TablePred(i, n)

\* C7 as stated: category_rank returns the rank of the first rule of the
\* table, in its fixed order, whose predicate holds; rank 0 wins over rank 1,
\* rank 1 over rank 2, every key with a v-neck spelling that matches a
\* tee, youth or toddler predicate gets 10, and every key with "youth" and a
\* toddler-size token gets 4 or 5.
C7_Original ==
    rank # Unset =>
        LET n == lower(key) IN
        /\ C7_FirstMatch
        /\ C7_SleevePrecedence
        /\ HasVNeck(n) /\ TeeYouthToddler(n) => rank[1] = 10
        /\ Contains(n, W_youth) /\ HasToddlerToken(n) => rank[1] \in {4, 5}

\* C7 amended: category_rank returns the rank of the first rule of the table,
\* in its fixed order, whose predicate holds; rank 0 wins over rank 1, rank 1
\* over rank 2; a key with a v-neck spelling that matches a tee, youth or
\* toddler predicate gets 10 unless a rank 0, 1 or 2 predicate holds of it;
\* a key with "youth" and a toddler-size token never gets 6 or 7, and gets
\* 4 or 5 unless a rank 0, 1, 2 or 10 predicate holds of it.
C7_FirstMatchInOrder ==
    rank # Unset =>
        LET n == lower(key)
            early == \E i \in 1..3 : TablePred(i, n)
        IN
        /\ C7_FirstMatch
        /\ C7_SleevePrecedence
        /\ HasVNeck(n) /\ TeeYouthToddler(n) /\ ~early => rank[1] = 10
        /\ Contains(n, W_youth) /\ HasToddlerToken(n) => rank[1] \notin {6, 7}
        /\ Contains(n, W_youth) /\ HasToddlerToken(n) /\ ~early /\ ~HasVNeck(n)
              => rank[1] \in {4, 5}

\* a key with a v-neck spelling, "youth", a toddler-size token and no
\* earlier rule is ranked 10
C7_Witness ==
    /\ rank = Some(10)
    /\ Contains(lower(key), W_youth)
    /\ HasToddlerToken(lower(key))

\* C9: the hoodie and non-hoodie-sweatshirt predicates used for the summary
\* totals and the export subsets agree with the categoriser: a key is a
\* hoodie iff its category rank is 2, and a non-hoodie sweatshirt iff its
\* category rank is 0.
C9_PredicatesMatchRanks ==
    (rank # Unset /\ hood # Unset) =>
        /\ hood[1] <=> (rank[1] = 2)
        /\ sweat[1] <=> (rank[1] = 0)

---------------------------------------------------------------------------
(* Quantity resolver *)

W_qty == <<"q", "t", "y">>
W_quantity == <<"q", "u", "a", "n", "t", "i", "t", "y">>

IsDigitAt(s, i) == i >= 1 /\ i <= Len(s) /\ s[i] \in Range(Digits)

\* regex [:x]* : the first position at or after i that holds neither
RECURSIVE SkipColonX(_, _)
SkipColonX(s, i) ==
    IF i <= Len(s) /\ s[i] \in {":", "x"} THEN SkipColonX(s, i + 1) ELSE i

\* regex \d+ : the position after the run of digits that starts at i
RECURSIVE SkipDigits(_, _)
SkipDigits(s, i) == IF IsDigitAt(s, i) THEN SkipDigits(s, i + 1) ELSE i

DigitValue(c) == (CHOOSE i \in DOMAIN Digits : Digits[i] = c) - 1

\* int() of a string of digits
RECURSIVE int(_)
int(ds) ==
    IF ds = <<>> THEN 0
    ELSE 10 * int(SubSeq(ds, 1, Len(ds) - 1)) + DigitValue(ds[Len(ds)])

\* where group 1 of r"(?:qty|quantity)\s*[:x]*\s*(\d+)" starts when the
\* pattern is tried at position i of the lower-cased line s; 0 for no match
QtyGroupStart(s, i) ==
    LET m == IF MatchAt(s, i, W_qty) THEN i + Len(W_qty)
             ELSE IF MatchAt(s, i, W_quantity) THEN i + Len(W_quantity)
             ELSE 0
        d == SkipSpace(s, SkipColonX(s, SkipSpace(s, m)))
    IN  IF m # 0 /\ IsDigitAt(s, d) THEN d ELSE 0

\* _parse_quantity_from_line: <<>> for None
parse_quantity_from_line(line) ==
    LET s == lower(line)
        hits == {i \in 1..Len(s) : QtyGroupStart(s, i) # 0}
    IN  IF hits = {} THEN <<>>
        ELSE LET i == CHOOSE h \in hits : \A g \in hits : h <= g
                 d == QtyGroupStart(s, i)
             IN  Some(int(SubSeq(s, d, SkipDigits(s, d) - 1)))

\* lines[j] for a valid 0-based index j
Line(ls, j) == ls[j + 1]

\* What find_quantity_near returns: the quantity q and the return statement
\* that produced it ("up": line 78, "down": line 87, "default": line 90;
\* "error": an uncaught IndexError).
Returned(q, via) == [q |-> q, via |-> via]

\* lines 81-87 and 90: the downward loop from offset on, then the default
RECURSIVE ScanDown(_, _, _, _)
ScanDown(ls, i, r, offset) ==
    IF offset > r \/ i + offset >= Len(ls) THEN Returned(1, "default")
    ELSE LET q == parse_quantity_from_line(Line(ls, i + offset))
         IN  IF q # <<>> THEN Returned(q[1], "down")
             ELSE ScanDown(ls, i, r, offset + 1)

\* lines 72-78: the upward loop from offset on, then the rest
RECURSIVE ScanUp(_, _, _, _)
ScanUp(ls, i, r, offset) ==
    IF offset > r \/ i - offset < 0 THEN ScanDown(ls, i, r, 1)
    ELSE LET q == parse_quantity_from_line(Line(ls, i - offset))
         IN  IF q # <<>> THEN Returned(q[1], "up")
             ELSE ScanUp(ls, i, r, offset + 1)

\* the upward loop alone: <<>> when it finds nothing
RECURSIVE ScanUpOnly(_, _, _, _)
ScanUpOnly(ls, i, r, offset) ==
    IF offset > r \/ i - offset < 0 THEN <<>>
    ELSE LET q == parse_quantity_from_line(Line(ls, i - offset))
         IN  IF q # <<>> THEN Some(Returned(q[1], "up"))
             ELSE ScanUpOnly(ls, i, r, offset + 1)

\* find_quantity_near with the two loops in the other order
find_quantity_near_down_first(ls, i, r) ==
    LET down == ScanDown(ls, i, r, 1)
        up == ScanUpOnly(ls, i, r, 1)
    IN  IF down.via = "down" THEN down
        ELSE IF up # <<>> THEN up[1]
        ELSE Returned(1, "default")

\* lines[j] as Python evaluates it for any j: a negative j counts from the
\* end, and a j outside -len..len-1 raises IndexError (<<>>)
PyItem(ls, j) ==
    IF j >= 0 /\ j < Len(ls) THEN Some(ls[j + 1])
    ELSE IF j < 0 /\ j >= -Len(ls) THEN Some(ls[Len(ls) + j + 1])
    ELSE <<>>

\* the upward loop without `if j < 0: break`
RECURSIVE ScanUpUnguarded(_, _, _, _)
ScanUpUnguarded(ls, i, r, offset) ==
    IF offset > r THEN ScanDown(ls, i, r, 1)
    ELSE LET item == PyItem(ls, i - offset)
         IN  IF item = <<>> THEN Returned(0, "error")
             ELSE LET q == parse_quantity_from_line(item[1])
                  IN  IF q # <<>> THEN Returned(q[1], "up")
                      ELSE ScanUpUnguarded(ls, i, r, offset + 1)

\* find_quantity_near without the lower bound check of the upward loop
find_quantity_near_unguarded(ls, i, r) == ScanUpUnguarded(ls, i, r, 1)

\* find_quantity_near with the upward loop starting at the label line
find_quantity_near_from_label(ls, i, r) == ScanUp(ls, i, r, 0)

find_quantity_near(ls, i, r) == ScanUp(ls, i, r, 1)

---------------------------------------------------------------------------
(* SpecQty: find_quantity_near on a sequence of lines *)

\* most lines of text
MaxLines == 5
\* the radii 1..MaxRadius are tried besides the default
MaxRadius == 2
DefaultRadius == 5

Radii == (1..MaxRadius) \cup {DefaultRadius}

LineTexts ==
    { <<"Q", "t", "y", ":", SP, "7">>,
      <<"q", "u", "a", "n", "t", "i", "t", "y", SP, "x", SP, "2">>,
      <<"S", "t", "y", "l", "e", ":", SP, "L">>,
      <<"S", "i", "z", "e", ":", SP, "q", "t", "y", SP, "1">> }

InitQty ==
    /\ pc = "qty"
    /\ lines \in SeqsUpTo(LineTexts, MaxLines) \ {<<>>}
    /\ idx \in 0..(Len(lines) - 1)
    /\ radius \in Radii
    /\ found = Unset
    /\ KeyIdle
    /\ AggIdle

\* qty = find_quantity_near(lines_list, idx, radius)
FindQuantityNear ==
    /\ pc = "qty"
    /\ found = Unset
    /\ found' = Some(find_quantity_near(lines, idx, radius))
    /\ UNCHANGED <<pc, lines, idx, radius, keyVars, aggVars>>

NextQty == FindQuantityNear

SpecQty == InitQty /\ [][NextQty]_vars

---------------------------------------------------------------------------
(* Claims about SpecQty *)

\* the distances d in 1..radius at which the line d above (dir = -1) or d
\* below (dir = 1) the label line exists and declares a quantity
MatchDistances(dir) ==
    {d \in 1..radius :
        /\ idx + dir * d >= 0
        /\ idx + dir * d < Len(lines)
        /\ parse_quantity_from_line(Line(lines, idx + dir * d)) # <<>>}

QuantityAt(j) == parse_quantity_from_line(Line(lines, j))[1]

\* C1: if a line within radius strictly above the label line declares a
\* quantity, the resolved quantity is the one of a line above, even when a
\* quantity line below is nearer.
C1_UpwardPrecedence ==
    (found # Unset /\ MatchDistances(-1) # {}) =>
        /\ found[1].via = "up"
        /\ \E d \in MatchDistances(-1) : found[1].q = QuantityAt(idx - d)

\* quantity 7 three lines above and quantity 2 one line below resolve to 7
C1_Witness ==
    /\ found # Unset
    /\ MatchDistances(-1) = {3}
    /\ 1 \in MatchDistances(1)
    /\ QuantityAt(idx - 3) = 7
    /\ QuantityAt(idx + 1) = 2
    /\ found[1].q = 7

\* C2: find_quantity_near never fails, and it returns the default quantity 1
\* exactly when no line at distance 1..radius above or below the label line
\* declares a quantity.
C2_DefaultExactlyWhenNoMatch ==
    found # Unset =>
        LET none == MatchDistances(-1) = {} /\ MatchDistances(1) = {}
        IN  /\ found[1].via # "error"
            /\ (found[1].via = "default") <=> none
            /\ none => found[1].q = 1

\* the only quantity line lies at distance radius + 1, and the default is
\* returned
C2_Witness ==
    /\ found # Unset
    /\ found[1] = Returned(1, "default")
    /\ idx + radius + 1 < Len(lines)
    /\ parse_quantity_from_line(Line(lines, idx + radius + 1)) # <<>>

\* C13: within a direction the nearest quantity line decides: the nearest
\* one above when some line within radius above declares a quantity,
\* otherwise the nearest one below; a line at distance exactly radius counts,
\* and a quantity written on the label line itself is never the result.
C13_NearestFirst ==
    found # Unset =>
        \A up \in {MatchDistances(-1)} : \A down \in {MatchDistances(1)} :
            /\ up # {} => found[1].q = QuantityAt(idx - Min(up))
            /\ (up = {} /\ down # {}) => found[1].q = QuantityAt(idx + Min(down))
            /\ (up = {} /\ down = {}) => found[1] = Returned(1, "default")

\* the label line itself reads "qty 1", the line above it declares 2 and the
\* line at distance radius above declares 7: the result is 2
C13_Witness ==
    /\ found # Unset
    /\ radius = 2
    /\ MatchDistances(-1) = {1, 2}
    /\ parse_quantity_from_line(Line(lines, idx)) = Some(1)
    /\ QuantityAt(idx - 1) = 2
    /\ QuantityAt(idx - 2) = 7
    /\ found[1].q = 2

---------------------------------------------------------------------------
(* Label detector and parse_lines *)

W_size_style == <<"s", "i", "z", "e", "/", "s", "t", "y", "l", "e">>
W_shirt_size_style == <<"s", "h", "i", "r", "t", SP, "s", "i", "z", "e", "/", "s", "t", "y", "l", "e">>
W_shirt_size == <<"s", "h", "i", "r", "t", SP, "s", "i", "z", "e">>
W_product_size == <<"p", "r", "o", "d", "u", "c", "t", SP, "s", "i", "z", "e">>
W_style == <<"s", "t", "y", "l", "e">>
W_size == <<"s", "i", "z", "e">>

\* LABEL_PATTERNS without the colon, lower-cased, in the order of the
\* alternation; an alternative is the sequence of its literal parts, which
\* the regex separates by \s*-\s*
LABEL_PATTERNS ==
    << <<W_size_style>>,
       <<W_shirt_size_style>>,
       <<W_shirt_size>>,
       <<W_product_size, W_style>>,
       <<W_product_size>>,
       <<W_style>>,
       <<W_size>> >>

\* the position after alternative alt matched at position i of s; 0 when it
\* does not match there
AlternativeEnd(s, i, alt) ==
    IF ~MatchAt(s, i, alt[1]) THEN 0
    ELSE IF Len(alt) = 1 THEN i + Len(alt[1])
    ELSE LET h == SkipSpace(s, i + Len(alt[1]))
             k == SkipSpace(s, h + 1)
         IN  IF h <= Len(s) /\ s[h] = "-" /\ MatchAt(s, k, alt[2])
             THEN k + Len(alt[2])
             ELSE 0

\* ^\s*(?:alt)\s*: tried with alternative alt: the position of the colon,
\* 0 when the line does not match this way
LabelColon(s, alt) ==
    LET e == AlternativeEnd(s, SkipSpace(s, 1), alt)
        c == SkipSpace(s, e)
    IN  IF e # 0 /\ c <= Len(s) /\ s[c] = ":" THEN c ELSE 0

\* LABEL_RE.match(ln): <<>> for None, else <<group 1>>.  The alternatives are
\* tried in order; after the colon \s* is greedy and (.*) takes the rest of
\* the line.
LABEL_RE_match(ln) ==
    LET s == lower(ln)
        hits == {a \in DOMAIN LABEL_PATTERNS : LabelColon(s, LABEL_PATTERNS[a]) # 0}
    IN  IF hits = {} THEN <<>>
        ELSE LET c == LabelColon(s, LABEL_PATTERNS[Min(hits)])
             IN  Some(SubSeq(ln, SkipSpace(ln, c + 1), Len(ln)))

\* lines_list = [ln.replace("\xa0", " ") for ln in lines]
LinesList(ls) == [i \in DOMAIN ls |-> ReplaceChar(ls[i], NBSP, SP)]

\* the loop of parse_lines from the 0-based index i on
RECURSIVE ParseFrom(_, _, _)
ParseFrom(ll, i, acc) ==
    IF i >= Len(ll) THEN acc
    ELSE LET m == LABEL_RE_match(Line(ll, i))
         IN  IF m = <<>> THEN ParseFrom(ll, i + 1, acc)
             ELSE ParseFrom(ll, i + 1,
                      Append(acc, <<strip(m[1]),
                                    find_quantity_near(ll, i, DefaultRadius).q>>))

\* parse_lines storing the normalised label
parse_lines_normalized(ls) ==
    LET es == ParseFrom(LinesList(ls), 0, <<>>)
    IN  [k \in DOMAIN es |-> <<normalize_key(es[k][1]), es[k][2]>>]

parse_lines(ls) == ParseFrom(LinesList(ls), 0, <<>>)

---------------------------------------------------------------------------
(* SpecParse: parse_lines on a sequence of lines *)

\* most lines given to parse_lines
MaxParseLines == 4

\*   'Style: L': a label line
\*   '<TAB>size :  Hooded  Sweatshirt ': leading tab, lower case, blank before the colon, inner and trailing blanks
\*   'Product Size -Style:': gapped prefix, empty value
\*   'Shirt Size/Style: V<NBSP>Neck': no-break space in the value
\*   'Qty: 7': a quantity line
\*   'My Style: L': a prefix that is not at the start
\*   'Size L': a prefix without a colon
\*   'Size: qty 4': a label whose value reads like a quantity
\*   '': an empty line
ParseLineTexts ==
    {
      <<"S", "t", "y", "l", "e", ":", SP, "L">>,
      <<TAB, "s", "i", "z", "e", SP, ":", SP, SP, "H", "o", "o", "d", "e", "d", SP, SP, "S", "w", "e", "a", "t", "s", "h", "i", "r", "t", SP>>,
      <<"P", "r", "o", "d", "u", "c", "t", SP, "S", "i", "z", "e", SP, "-", "S", "t", "y", "l", "e", ":">>,
      <<"S", "h", "i", "r", "t", SP, "S", "i", "z", "e", "/", "S", "t", "y", "l", "e", ":", SP, "V", NBSP, "N", "e", "c", "k">>,
      <<"Q", "t", "y", ":", SP, "7">>,
      <<"M", "y", SP, "S", "t", "y", "l", "e", ":", SP, "L">>,
      <<"S", "i", "z", "e", SP, "L">>,
      <<"S", "i", "z", "e", ":", SP, "q", "t", "y", SP, "4">>,
      <<>> }

InitParse ==
    /\ pc = "parse"
    /\ lines \in SeqsUpTo(ParseLineTexts, MaxParseLines)
    /\ idx = 0 /\ radius = 0 /\ found = Unset
    /\ KeyIdle
    /\ AggIdle

\* entries = parse_lines(lines)
ParseLines ==
    /\ pc = "parse"
    /\ pc' = "parsed"
    /\ entries' = parse_lines(lines)
    /\ UNCHANGED <<lines, idx, radius, found, result, df, cats, summary, keyVars>>

NextParse == ParseLines

SpecParse == InitParse /\ [][NextParse]_vars

---------------------------------------------------------------------------
(* Claims about SpecParse *)

\* the text before the first colon of l, trimmed and lower-cased; <<>> when l
\* has no colon
BeforeColon(l) ==
    LET cs == {c \in DOMAIN l : l[c] = ":"}
    IN  IF cs = {} THEN <<>> ELSE lower(strip(SubSeq(l, 1, Min(cs) - 1)))

\* the text after the first colon of l, trimmed
AfterColon(l) ==
    LET cs == {c \in DOMAIN l : l[c] = ":"}
    IN  strip(SubSeq(l, Min(cs) + 1, Len(l)))

\* h is "product size", a hyphen with blanks around it or not, and "style"
IsGappedPrefix(h) ==
    \E i, j \in DOMAIN h :
        /\ i < j
        /\ SubSeq(h, 1, i) = W_product_size
        /\ strip(SubSeq(h, i + 1, j - 1)) = <<"-">>
        /\ SubSeq(h, j, Len(h)) = W_style

\* l is a label line: leading blanks and case aside, it begins with one of
\* the seven prefixes and its colon
IsLabelLine(l) ==
    \/ BeforeColon(l) \in {W_size_style, W_shirt_size_style, W_shirt_size,
                           W_product_size, W_style, W_size}
    \/ IsGappedPrefix(BeforeColon(l))

\* the 1-based positions of the label lines of ll, ascending
RECURSIVE LabelPositions(_, _)
LabelPositions(ll, i) ==
    IF i > Len(ll) THEN <<>>
    ELSE (IF IsLabelLine(ll[i]) THEN <<i>> ELSE <<>>) \o LabelPositions(ll, i + 1)

\* C11: parse_lines yields exactly one entry per label line, in line order,
\* and none for any other line, however many quantity lines there are and
\* however many labels resolve to the same quantity line; the label of an
\* entry is the text after the colon of its line, trimmed and not normalised.
C11_OneEntryPerLabelLine ==
    pc = "parsed" =>
        \A ll \in {LinesList(lines)} : \A at \in {LabelPositions(ll, 1)} :
            /\ Len(entries) = Len(at)
            /\ \A k \in DOMAIN at : entries[k][1] = AfterColon(ll[at[k]])

\* two label lines around one quantity line give two entries with the
\* quantity 7, and the label with a double blank keeps it
C11_Witness ==
    /\ pc = "parsed"
    /\ Len(lines) = 4
    /\ Len(entries) = 2
    /\ entries[1] = <<<<"L">>, 7>>
    /\ entries[2][2] = 7
    /\ entries[2][1] # normalize_key(entries[2][1])
    /\ \E j \in DOMAIN lines : lines[j] # <<>> /\ ~IsLabelLine(lines[j])
                               /\ parse_quantity_from_line(lines[j]) = <<>>

---------------------------------------------------------------------------
(* Aggregator *)

\* A dict is the sequence of its items <<key, value>> in insertion order.

DictHas(d, k) == \E i \in DOMAIN d : d[i][1] = k

\* d[k] += q on a defaultdict(int)
DictAdd(d, k, q) ==
    IF DictHas(d, k)
    THEN [i \in DOMAIN d |-> IF d[i][1] = k THEN <<k, d[i][2] + q>> ELSE d[i]]
    ELSE Append(d, <<k, q>>)

\* d[k] = q
DictSet(d, k, q) ==
    IF DictHas(d, k)
    THEN [i \in DOMAIN d |-> IF d[i][1] = k THEN <<k, q>> ELSE d[i]]
    ELSE Append(d, <<k, q>>)

\* lines 163-164: the loop over the entries from position i on
RECURSIVE Aggregate(_, _, _)
Aggregate(d, es, i) ==
    IF i > Len(es) THEN d
    ELSE Aggregate(DictAdd(d, normalize_key(es[i][1]), es[i][2]), es, i + 1)

\* the loop with `=` written for `+=`
RECURSIVE AggregateOverwrite(_, _, _)
AggregateOverwrite(d, es, i) ==
    IF i > Len(es) THEN d
    ELSE AggregateOverwrite(DictSet(d, normalize_key(es[i][1]), es[i][2]), es, i + 1)

\* sum(q for k, q in d.items() if k in keep), from position i on
RECURSIVE SumItems(_, _, _)
SumItems(d, keep, i) ==
    IF i > Len(d) THEN 0
    ELSE (IF d[i][1] \in keep THEN d[i][2] ELSE 0) + SumItems(d, keep, i + 1)

DictKeys(d) == {d[i][1] : i \in DOMAIN d}

ExtractionResult(d) ==
    [agg |-> d,
     unique_count |-> Len(d),
     sweatshirt_nonhoodie_total |->
        SumItems(d, {k \in DictKeys(d) : is_sweatshirt_nonhoodie(k)}, 1),
     hoodie_total |-> SumItems(d, {k \in DictKeys(d) : is_hoodie(k)}, 1)]

\* summarize that assigns the quantity to the bucket instead of adding it
summarize_overwrite(es) == ExtractionResult(AggregateOverwrite(<<>>, es, 1))

summarize(es) == ExtractionResult(Aggregate(<<>>, es, 1))

---------------------------------------------------------------------------
(* Size ranker and sorter *)

\* the list of which size_order is built; size_order[s] is the 0-based
\* position of s
SizeList ==
    << <<"x", "s">>, <<"s">>, <<"m">>, <<"l">>, <<"x", "l">>,
       <<"2", "x", "l">>, <<"3", "x", "l">>, <<"4", "x", "l">>,
       <<"5", "x", "l">>, <<"6", "x", "l">> >>

\* size_order.get(s, len(size_order))
SizeOrderGet(s) ==
    IF s \in Range(SizeList)
    THEN (CHOOSE i \in DOMAIN SizeList : SizeList[i] = s) - 1
    ELSE Len(SizeList)

\* size_rank that ranks a key without a size token first
size_rank_unsized_first(name) ==
    LET m == size_search(lower(name))
    IN  IF m = <<>> THEN 0 ELSE SizeOrderGet(m)

size_rank(name) ==
    LET m == size_search(lower(name))
    IN  IF m = <<>> THEN Len(SizeList) ELSE SizeOrderGet(m)

sort_key(item) == <<category_rank(item[1]), size_rank(item[1]), lower(item[1])>>

\* a < b for two strings: by code point, a proper prefix first
RECURSIVE StrLess(_, _)
StrLess(a, b) ==
    IF b = <<>> THEN FALSE
    ELSE IF a = <<>> THEN TRUE
    ELSE IF Head(a) # Head(b) THEN Ord[Head(a)] < Ord[Head(b)]
    ELSE StrLess(Tail(a), Tail(b))

\* a < b for two sort keys (tuple comparison)
KeyLess(a, b) ==
    \/ a[1] < b[1]
    \/ a[1] = b[1] /\ a[2] < b[2]
    \/ a[1] = b[1] /\ a[2] = b[2] /\ StrLess(a[3], b[3])

\* sorted() is stable: x goes behind every element that is not greater.
\* The elements are pairs <<sort key, item>>.
RECURSIVE InsertSorted(_, _)
InsertSorted(sorted, x) ==
    IF sorted = <<>> THEN <<x>>
    ELSE IF KeyLess(x[1], Head(sorted)[1]) THEN <<x>> \o sorted
    ELSE <<Head(sorted)>> \o InsertSorted(Tail(sorted), x)

RECURSIVE SortKeyed(_, _, _)
SortKeyed(sorted, xs, i) ==
    IF i > Len(xs) THEN sorted
    ELSE SortKeyed(InsertSorted(sorted, xs[i]), xs, i + 1)

\* to_dataframe: the rows of the frame
to_dataframe(d) ==
    LET keyed == [i \in DOMAIN d |-> <<sort_key(d[i]), d[i]>>]
        sorted == SortKeyed(<<>>, keyed, 1)
    IN  [i \in DOMAIN sorted |-> sorted[i][2]]

---------------------------------------------------------------------------
(* Spec, SpecSort: summarize over a sequence of entries, then to_dataframe *)

\* most entries given to summarize
MaxEntries == 3

Quantities == {2, 3}

\* Spec: labels of which two are spellings of one key
RawLabels ==
    { <<"H", "o", "o", "d", "e", "d", SP, "S", "w", "e", "a", "t", "s", "h", "i", "r", "t",
        SP, "-", SP, "X", "L">>,
      <<"H", "o", "o", "d", "e", "d", SP, SP, "S", "w", "e", "a", "t", "s", "h", "i", "r", "t",
        SP, ENDASH, SP, "X", "L">>,
      <<"S", "w", "e", "a", "t", "s", "h", "i", "r", "t", SP, "-", SP, "M">>,
      <<"h", "o", "o", "d", "i", "e">> }

\* SpecSort: labels of several categories and sizes, with and without a size,
\* two of them differing in letter case only
SortLabels ==
    { <<"H", "o", "o", "d", "e", "d", SP, "S", "w", "e", "a", "t", "s", "h", "i", "r", "t",
        SP, "-", SP, "X", "L">>,
      <<"H", "o", "o", "d", "e", "d", SP, "S", "w", "e", "a", "t", "s", "h", "i", "r", "t",
        SP, "-", SP, "S">>,
      <<"S", "w", "e", "a", "t", "s", "h", "i", "r", "t", SP, "-", SP, "M">>,
      <<"S", "w", "e", "a", "t", "s", "h", "i", "r", "t">>,
      <<"h", "o", "o", "d", "i", "e", SP, "-", SP, "s">>,
      <<"H", "o", "o", "d", "i", "e", SP, "-", SP, "S">> }

Init ==
    /\ pc = "agg"
    /\ entries \in SeqsUpTo(RawLabels \X Quantities, MaxEntries)
    /\ result = Unset
    /\ df = Unset
    /\ cats = Unset /\ summary = Unset
    /\ KeyIdle
    /\ QtyIdle

\* entries whose labels are pairwise different
InitSort ==
    /\ pc = "agg"
    /\ \E ls \in DistinctSeqsUpTo(SortLabels, MaxEntries) :
          entries \in {e \in [DOMAIN ls -> SortLabels \X Quantities] :
                          \A i \in DOMAIN ls : e[i][1] = ls[i]}
    /\ result = Unset
    /\ df = Unset
    /\ cats = Unset /\ summary = Unset
    /\ KeyIdle
    /\ QtyIdle

\* result = summarize(entries)
Summarize ==
    /\ pc = "agg"
    /\ result = Unset
    /\ result' = Some(summarize(entries))
    /\ UNCHANGED <<pc, entries, df, cats, summary, keyVars, qtyVars>>

\* df = to_dataframe(result.agg)
ToDataframe ==
    /\ pc = "agg"
    /\ result # Unset
    /\ df = Unset
    /\ df' = Some(to_dataframe(result[1].agg))
    /\ UNCHANGED <<pc, entries, result, cats, summary, keyVars, qtyVars>>

Next == Summarize \/ ToDataframe

Spec == Init /\ [][Next]_vars

SpecSort == InitSort /\ [][Next]_vars

---------------------------------------------------------------------------
(* Category summary of the two front ends *)

W_apron == <<"a", "p", "r", "o", "n">>
W_tote == <<"t", "o", "t", "e">>

\* the counters before the loop over agg.items()
Counters(sweatshirt_total, hoodie_total) ==
    [sweatshirts |-> sweatshirt_total, hoodies |-> hoodie_total,
     adult_tees |-> 0, vnecks |-> 0, longsleeves |-> 0, youth |-> 0,
     toddler |-> 0, onesie |-> 0, apron |-> 0, tote |-> 0]

\* web only: the sweatshirt and hoodie counters, from the key's wording
CountWording(c, s_lower, q) ==
    LET sw == /\ Contains(s_lower, W_sweatshirt)
              /\ ~Contains(s_lower, W_hoodie)
              /\ ~Contains(s_lower, W_hooded)
        ho == \/ Contains(s_lower, W_hoodie)
              \/ Contains(s_lower, W_hooded_sweatshirt)
              \/ Contains(s_lower, W_unisex_hoodie)
    IN  [c EXCEPT !.sweatshirts = IF sw THEN @ + q ELSE @,
                  !.hoodies = IF ho THEN @ + q ELSE @]

\* the if / elif chain on the rank, with youth counted for rank 4 alone
CountByRank_tees_only(c, cat, q) ==
    IF cat = 1 THEN [c EXCEPT !.longsleeves = @ + q]
    ELSE IF cat = 3 THEN [c EXCEPT !.adult_tees = @ + q]
    ELSE IF cat = 4 THEN [c EXCEPT !.youth = @ + q]
    ELSE IF cat \in {6, 7} THEN [c EXCEPT !.toddler = @ + q]
    ELSE IF cat = 8 THEN [c EXCEPT !.onesie = @ + q]
    ELSE IF cat = 10 THEN [c EXCEPT !.vnecks = @ + q]
    ELSE c

\* the if / elif chain on the rank
CountByRank(c, cat, q) ==
    IF cat = 1 THEN [c EXCEPT !.longsleeves = @ + q]
    ELSE IF cat = 3 THEN [c EXCEPT !.adult_tees = @ + q]
    ELSE IF cat \in {4, 5} THEN [c EXCEPT !.youth = @ + q]
    ELSE IF cat \in {6, 7} THEN [c EXCEPT !.toddler = @ + q]
    ELSE IF cat = 8 THEN [c EXCEPT !.onesie = @ + q]
    ELSE IF cat = 10 THEN [c EXCEPT !.vnecks = @ + q]
    ELSE c

\* the apron and tote counters
CountOverlays(c, s_lower, q) ==
    [c EXCEPT !.apron = IF Contains(s_lower, W_apron) THEN @ + q ELSE @,
              !.tote = IF Contains(s_lower, W_tote) THEN @ + q ELSE @]

\* total_items = int(sum(agg.values()))
TotalItems(d) == SumItems(d, DictKeys(d), 1)

WithTotal(c, total_items) ==
    [total_items |-> total_items,
     sweatshirts |-> c.sweatshirts, hoodies |-> c.hoodies,
     adult_tees |-> c.adult_tees, vnecks |-> c.vnecks,
     longsleeves |-> c.longsleeves, youth |-> c.youth, toddler |-> c.toddler,
     onesie |-> c.onesie, apron |-> c.apron, tote |-> c.tote]

\* streamlit_app: the loop over agg.items() from item i on
RECURSIVE WebLoop(_, _, _)
WebLoop(d, i, c) ==
    IF i > Len(d) THEN c
    ELSE LET style == d[i][1]
             q == d[i][2]
             cat == category_rank(style)
             s_lower == lower(style)
         IN  WebLoop(d, i + 1,
                 CountOverlays(CountByRank(CountWording(c, s_lower, q), cat, q),
                               s_lower, q))

\* streamlit_app.summarize_by_category
summarize_by_category(d) == WithTotal(WebLoop(d, 1, Counters(0, 0)), TotalItems(d))

\* esty_counter: the loop over result.agg.items() from item i on
RECURSIVE DesktopLoop(_, _, _)
DesktopLoop(d, i, c) ==
    IF i > Len(d) THEN c
    ELSE LET style == d[i][1]
             q == d[i][2]
             cat == category_rank(style)
             s_lower == lower(style)
         IN  DesktopLoop(d, i + 1, CountOverlays(CountByRank(c, cat, q), s_lower, q))

\* esty_counter.App.extract: the counters of the summary it prints
extract_summary(r) ==
    WithTotal(DesktopLoop(r.agg, 1,
                  Counters(r.sweatshirt_nonhoodie_total, r.hoodie_total)),
              TotalItems(r.agg))

---------------------------------------------------------------------------
(* SpecSummary: summarize, then the summary of each front end *)

\* labels of every category rank, with and without "apron" / "tote"
SummaryLabels ==
    {
      <<"S", "w", "e", "a", "t", "s", "h", "i", "r", "t">>,
      <<"h", "o", "o", "d", "i", "e">>,
      <<"L", "o", "n", "g", SP, "S", "l", "e", "e", "v", "e">>,
      <<"A", "p", "r", "o", "n", SP, "T", "e", "e">>,
      <<"Y", "o", "u", "t", "h", SP, "T", "e", "e">>,
      <<"Y", "o", "u", "t", "h", SP, "T", "o", "t", "e">>,
      <<"3", "T", SP, "T", "e", "e">>,
      <<"T", "o", "d", "d", "l", "e", "r">>,
      <<"O", "n", "e", "s", "i", "e">>,
      <<"V", "-", "N", "e", "c", "k">>,
      <<"T", "o", "t", "e", SP, "B", "a", "g">> }

\* entries with pairwise different labels; the i-th entry orders i + 1 items
InitSummary ==
    /\ pc = "agg"
    /\ entries \in {[i \in DOMAIN ls |-> <<ls[i], i + 1>>] :
                       ls \in DistinctSeqsUpTo(SummaryLabels, MaxEntries)}
    /\ result = Unset
    /\ df = Unset
    /\ cats = Unset /\ summary = Unset
    /\ KeyIdle
    /\ QtyIdle

\* web: cats = summarize_by_category(result.agg)
WebSummary ==
    /\ pc = "agg"
    /\ result # Unset
    /\ cats = Unset
    /\ cats' = Some(summarize_by_category(result[1].agg))
    /\ UNCHANGED <<pc, entries, result, df, summary, keyVars, qtyVars>>

\* desktop: the summary counting of App.extract
DesktopSummary ==
    /\ pc = "agg"
    /\ result # Unset
    /\ summary = Unset
    /\ summary' = Some(extract_summary(result[1]))
    /\ UNCHANGED <<pc, entries, result, df, cats, keyVars, qtyVars>>

NextSummary == Summarize \/ WebSummary \/ DesktopSummary

SpecSummary == InitSummary /\ [][NextSummary]_vars

---------------------------------------------------------------------------
(* Claims about Spec *)

RECURSIVE SumSeq(_, _)
SumSeq(qs, i) == IF i > Len(qs) THEN 0 ELSE qs[i] + SumSeq(qs, i + 1)

\* the quantities of the entries whose raw label normalises to k, summed
EntryTotal(es, k) ==
    SumSeq([i \in DOMAIN es |-> IF normalize_key(es[i][1]) = k THEN es[i][2] ELSE 0], 1)

DictValues(d) == [i \in DOMAIN d |-> d[i][2]]

\* C3: the values of the AggregateMap sum to the sum of the quantities of all
\* entries; its keys are the normalised labels of the entries, each once, and
\* the value of a key is the sum of the quantities of exactly the entries
\* whose raw label normalises to it.
C3_SumInvariant ==
    result # Unset =>
        LET agg == result[1].agg IN
        /\ SumSeq(DictValues(agg), 1) = SumSeq([i \in DOMAIN entries |-> entries[i][2]], 1)
        /\ DictKeys(agg) = {normalize_key(entries[i][1]) : i \in DOMAIN entries}
        /\ \A i, j \in DOMAIN agg : agg[i][1] = agg[j][1] => i = j
        /\ \A i \in DOMAIN agg : agg[i][2] = EntryTotal(entries, agg[i][1])

\* two entries whose labels differ in a whitespace run and an en dash are
\* merged into one key that holds the sum of their quantities
C3_Witness ==
    /\ result # Unset
    /\ Len(entries) = 2
    /\ entries[1][1] # entries[2][1]
    /\ entries[1][2] # entries[2][2]
    /\ \E i \in DOMAIN entries[2][1] : entries[2][1][i] = ENDASH
    /\ result[1].agg = <<<<normalize_key(entries[1][1]), entries[1][2] + entries[2][2]>>>>

\* the entries es reordered by the permutation p of their positions
Permuted(es, p) == [i \in DOMAIN es |-> es[p[i]]]

SameSummary(r1, r2) ==
    /\ Range(r1.agg) = Range(r2.agg)
    /\ r1.unique_count = r2.unique_count
    /\ r1.hoodie_total = r2.hoodie_total
    /\ r1.sweatshirt_nonhoodie_total = r2.sweatshirt_nonhoodie_total

\* C4: summarize is order-independent: every permutation of the entries
\* yields the same AggregateMap as a set of key/quantity pairs, the same
\* unique count, hoodie total and non-hoodie sweatshirt total.
C4_OrderIndependent ==
    result # Unset =>
        \A r \in {summarize(Permuted(entries, p)) : p \in Permutations(DOMAIN entries)} :
            SameSummary(r, result[1])

\* some permutation of the entries inserts the keys in another order, and
\* two of the entries fall into one bucket
C4_Witness ==
    /\ result # Unset
    /\ Len(entries) = 3
    /\ result[1].unique_count = 2
    /\ \E p \in Permutations(DOMAIN entries) :
          summarize(Permuted(entries, p)).agg # result[1].agg

\* C8: no key is both a hoodie and a non-hoodie sweatshirt, so the hoodie
\* total and the non-hoodie sweatshirt total together never exceed the sum of
\* the AggregateMap's values.
C8_HoodieSweatshirtExclusive ==
    result # Unset =>
        LET r == result[1] IN
        /\ \A k \in DictKeys(r.agg) : ~(is_hoodie(k) /\ is_sweatshirt_nonhoodie(k))
        /\ r.hoodie_total + r.sweatshirt_nonhoodie_total <= SumSeq(DictValues(r.agg), 1)

\* a map with a hoodie, a non-hoodie sweatshirt and a key that is neither
C8_Witness ==
    /\ result # Unset
    /\ result[1].hoodie_total > 0
    /\ result[1].sweatshirt_nonhoodie_total > 0
    /\ result[1].hoodie_total + result[1].sweatshirt_nonhoodie_total
          < SumSeq(DictValues(result[1].agg), 1)

\* where the standalone size token t starts in the lower-cased key n
TokenStarts(n, t) ==
    {i \in 1..Len(n) : Boundary(n, i) /\ MatchAt(n, i, t) /\ Boundary(n, i + Len(t))}

\* the position in xs < s < m < l < xl < 2xl < ... < 6xl of the first
\* standalone size token of the key; a key without one ranks after them all
FirstSizeTokenRank(k) ==
    LET n == lower(k)
        starts == UNION {TokenStarts(n, SizeList[t]) : t \in DOMAIN SizeList}
    IN  IF starts = {} THEN Len(SizeList)
        ELSE LET first == CHOOSE i \in starts : \A j \in starts : i <= j
             IN  (CHOOSE t \in DOMAIN SizeList : first \in TokenStarts(n, SizeList[t])) - 1

ReportTriple(k) == <<category_rank(k), FirstSizeTokenRank(k), lower(k)>>

\* C10: the rows of to_dataframe are exactly the entries of the AggregateMap,
\* none lost or duplicated, and along the rows the triple (category rank,
\* size rank, lower-cased key) never decreases; within a category a key
\* without a size token comes after every key with one.
C10_ReportOrder ==
    df # Unset =>
        LET rows == df[1]
            agg == result[1].agg
        IN
        \A triple \in {[i \in DOMAIN rows |-> ReportTriple(rows[i][1])]} :
        /\ Len(rows) = Len(agg)
        /\ Range(rows) = Range(agg)
        /\ \A i \in 1..(Len(rows) - 1) : ~KeyLess(triple[i + 1], triple[i])
        /\ \A i, j \in DOMAIN rows :
              /\ triple[i][1] = triple[j][1]
              /\ triple[i][2] < Len(SizeList)
              /\ triple[j][2] = Len(SizeList)
              => i < j

\* 'Hooded Sweatshirt - XL', 'Hooded Sweatshirt - S', 'Sweatshirt - M',
\* inserted in this order, are reported as 'Sweatshirt - M',
\* 'Hooded Sweatshirt - S', 'Hooded Sweatshirt - XL'
C10_Witness ==
    /\ df # Unset
    /\ Len(df[1]) = 3
    /\ category_rank(result[1].agg[1][1]) = 2 /\ size_rank(result[1].agg[1][1]) = 4
    /\ category_rank(result[1].agg[2][1]) = 2 /\ size_rank(result[1].agg[2][1]) = 1
    /\ category_rank(result[1].agg[3][1]) = 0 /\ size_rank(result[1].agg[3][1]) = 2
    /\ is_hoodie(result[1].agg[2][1])
    /\ df[1] = <<result[1].agg[3], result[1].agg[2], result[1].agg[1]>>

\* C14: the report depends on the contents of the AggregateMap alone: every
\* reordering of the entries, hence every insertion order of the same keys
\* and quantities, keys differing only in letter case included, gives the
\* same sequence of rows.
C14_OrderDeterministic ==
    df # Unset =>
        \A rows \in {to_dataframe(summarize(Permuted(entries, p)).agg) :
                        p \in Permutations(DOMAIN entries)} :
            rows = df[1]

---------------------------------------------------------------------------
(* Claims about SpecSummary *)

\* the summaries computed so far, of either front end
Summaries ==
    (IF cats # Unset THEN {cats[1]} ELSE {})
    \cup (IF summary # Unset THEN {summary[1]} ELSE {})

\* the category ranks of the keys of d, item by item
Ranks(d) == [i \in DOMAIN d |-> category_rank(d[i][1])]

\* the sum of the quantities of the items of d whose rank, the one rk gives,
\* is in R
RankTotal(d, rk, R) ==
    SumSeq([i \in DOMAIN d |-> IF rk[i] \in R THEN d[i][2] ELSE 0], 1)

\* the sum of the quantities of the keys of d that contain w, case aside
WordTotal(d, w) ==
    SumSeq([i \in DOMAIN d |-> IF Contains(lower(d[i][1]), w) THEN d[i][2] ELSE 0], 1)

SixTotals(c) ==
    c.longsleeves + c.adult_tees + c.youth + c.toddler + c.onesie + c.vnecks

\* C12: in the category summary every key adds its quantity to the total of
\* its own rank only (long sleeve 1, adult tee 3, youth 4 or 5, toddler 6 or 7,
\* onesie 8, v-neck 10; ranks 0, 2 and 11 add to none), so the six totals sum
\* to at most the item count; the apron and tote totals are the sums over the
\* keys containing "apron" / "tote", whatever their rank.
C12_CategoryTotals ==
    result # Unset =>
        \A d \in {result[1].agg} : \A rk \in {Ranks(result[1].agg)} :
            \A c \in Summaries :
                /\ c.longsleeves = RankTotal(d, rk, {1})
                /\ c.adult_tees = RankTotal(d, rk, {3})
                /\ c.youth = RankTotal(d, rk, {4, 5})
                /\ c.toddler = RankTotal(d, rk, {6, 7})
                /\ c.onesie = RankTotal(d, rk, {8})
                /\ c.vnecks = RankTotal(d, rk, {10})
                /\ c.total_items = SumSeq(DictValues(d), 1)
                /\ SixTotals(c) + RankTotal(d, rk, {0, 2, 11}) = c.total_items
                /\ SixTotals(c) <= c.total_items
                /\ c.apron = WordTotal(d, W_apron)
                /\ c.tote = WordTotal(d, W_tote)

\* both summaries of a map with an apron tee (rank 3), a youth tote (rank 5)
\* and a hoodie (rank 2): the first counts as adult tee and as apron, the
\* second as youth and as tote, the third in none of the six totals
C12_Witness ==
    /\ cats # Unset /\ summary # Unset
    /\ Len(result[1].agg) = 3
    /\ \E i, j, k \in DOMAIN result[1].agg :
          /\ category_rank(result[1].agg[i][1]) = 3
          /\ Contains(lower(result[1].agg[i][1]), W_apron)
          /\ category_rank(result[1].agg[j][1]) = 5
          /\ Contains(lower(result[1].agg[j][1]), W_tote)
          /\ category_rank(result[1].agg[k][1]) = 2
          /\ \A c \in Summaries :
                /\ c.adult_tees = result[1].agg[i][2] /\ c.apron = c.adult_tees
                /\ c.youth = result[1].agg[j][2] /\ c.tote = c.youth
                /\ SixTotals(c) = c.total_items - result[1].agg[k][2]

\* C15: for every aggregate map the web summary and the desktop summary
\* have equal values for every counter, the hoodie total and the non-hoodie
\* sweatshirt total included.
C15_FrontEndsAgree ==
    (cats # Unset /\ summary # Unset) => cats[1] = summary[1]

====
